---- MODULE Spec2Model ----
(***************************************************************************)
(* Phoneme decoding and alignment engine of sergeyvbo/phonem:              *)
(*   - ScorerService.compare_phonemes   (backend/app/services/scorer.py)   *)
(*   - normalize_ipa_sequence   (backend/app/services/phoneme_converter.py)*)
(*   - RecognizerService.transcribe  (backend/app/services/recognizer.py)  *)
(*   - score_practice                        (backend/app/api/routes.py)   *)
(* Python floats are IEEE-754 doubles; the arithmetic that decides a score *)
(* or a timestamp is modelled bit-exactly (53-bit significand, round to    *)
(* nearest even) on 16-bit limbs.   Probability mass in the beam search is *)
(* modelled in the linear domain with exact integers: logaddexp is +,      *)
(* adding log-probabilities is *, and -inf is 0.                           *)
(***************************************************************************)
EXTENDS Integers, Sequences, FiniteSets, TLC

----------------------------------------------------------------------------
(* Bounds of the model *)

\* longest reference / hypothesis sequence that is enumerated exhaustively
MaxLen == 3
\* length of the long reference / hypothesis sequences (runs of one symbol)
LongLen == 50
\* most tokens in a list given to the normalizer, and most characters in one
MaxTokens == 2
MaxTokenLen == 2
\* most segments in a recognizer result handed to score_practice
MaxSegments == 2
\* most frames of an utterance whose rows are enumerated exhaustively
MaxFrames == 3
\* frames of the longer utterances
LongFrames == 9
\* frames of the utterances in which a symbol fades and comes back
MidFrames == 5

----------------------------------------------------------------------------
(* IEEE-754 binary64 arithmetic on non-negative values.                    *)
(* A natural number is a sequence of 16-bit limbs, most significant first, *)
(* without leading zero limbs.  A double is [m |-> the limbs of its 53-bit *)
(* significand, e |-> the exponent of the significand's last bit]; its     *)
(* value is m * 2^e.  Zero is [m |-> <<>>, e |-> 0].                       *)

SigBits == 53
LimbBits == 16
LimbBase == 65536
\* zero limbs appended to a dividend before a division by a 15-bit integer
GuardLimbs == 2

RECURSIVE Pow2(_)
Pow2(n) == IF n = 0 THEN 1 ELSE 2 * Pow2(n - 1)

BitLen(n) == CHOOSE b \in 0..31 : (b = 0 /\ n = 0) \/ (b > 0 /\ Pow2(b - 1) <= n /\ (b = 31 \/ n < Pow2(b)))

Zeros(n) == [i \in 1..n |-> 0]
Front(s) == SubSeq(s, 1, Len(s) - 1)

RECURSIVE NatLimbs(_)
NatLimbs(n) == IF n = 0 THEN <<>> ELSE NatLimbs(n \div LimbBase) \o <<n % LimbBase>>

RECURSIVE LimbsNat(_)
LimbsNat(L) == IF L = <<>> THEN 0 ELSE LimbBase * LimbsNat(Front(L)) + L[Len(L)]

RECURSIVE StripLimbs(_)
StripLimbs(L) == IF L # <<>> /\ L[1] = 0 THEN StripLimbs(Tail(L)) ELSE L

NumBits(L) == IF L = <<>> THEN 0 ELSE LimbBits * (Len(L) - 1) + BitLen(L[1])

RECURSIVE IncLimbs(_)
IncLimbs(L) ==
    IF L = <<>> THEN <<1>>
    ELSE IF L[Len(L)] < LimbBase - 1 THEN Front(L) \o <<L[Len(L)] + 1>>
    ELSE IncLimbs(Front(L)) \o <<0>>

RECURSIVE AddLimbs(_, _, _)
AddLimbs(A, B, c) ==
    IF A = <<>> /\ B = <<>> THEN NatLimbs(c)
    ELSE LET a == IF A = <<>> THEN 0 ELSE A[Len(A)]
             b == IF B = <<>> THEN 0 ELSE B[Len(B)]
             v == a + b + c
         IN AddLimbs(IF A = <<>> THEN A ELSE Front(A),
                     IF B = <<>> THEN B ELSE Front(B), v \div LimbBase)
            \o <<v % LimbBase>>

\* L * k + carry for an integer k below 2^15
RECURSIVE MulLimbs(_, _, _)
MulLimbs(L, k, carry) ==
    IF L = <<>> THEN NatLimbs(carry)
    ELSE LET v == L[Len(L)] * k + carry
         IN MulLimbs(Front(L), k, v \div LimbBase) \o <<v % LimbBase>>

\* long division of L by an integer k below 2^15: <<quotient limbs, remainder>>
RECURSIVE DivLimbs(_, _, _)
DivLimbs(L, k, rem) ==
    IF L = <<>> THEN << <<>>, rem >>
    ELSE LET cur == LimbBase * rem + L[1]
             rest == DivLimbs(Tail(L), k, cur % k)
         IN << <<cur \div k>> \o rest[1], rest[2] >>

ShiftLeft(L, s) ==
    IF L = <<>> THEN L
    ELSE StripLimbs(MulLimbs(L, Pow2(s % LimbBits), 0)) \o Zeros(s \div LimbBits)

\* <<L shifted right by s bits, whether a non-zero bit was shifted out>>
ShiftRight(L, s) ==
    LET dl == s \div LimbBits
    IN IF dl >= Len(L) THEN << <<>>, \E i \in 1..Len(L) : L[i] # 0 >>
       ELSE LET qr == DivLimbs(SubSeq(L, 1, Len(L) - dl), Pow2(s % LimbBits), 0)
            IN << StripLimbs(qr[1]),
                  qr[2] # 0 \/ \E i \in (Len(L) - dl + 1)..Len(L) : L[i] # 0 >>

fzero == [m |-> <<>>, e |-> 0]

\* round the exact value L * 2^e (plus a non-zero tail below the last bit
\* when sticky) to the nearest double, ties to even
fround(L, e, sticky) ==
    IF L = <<>> THEN fzero
    ELSE LET nb == NumBits(L)
         IN IF nb <= SigBits
            THEN [m |-> ShiftLeft(L, SigBits - nb), e |-> e - (SigBits - nb)]
            ELSE LET d == nb - SigBits
                     y == ShiftRight(L, d - 1)
                     h == DivLimbs(y[1], 2, 0)
                     Q == StripLimbs(h[1])
                     up == h[2] = 1 /\ (sticky \/ y[2] \/ Q[Len(Q)] % 2 = 1)
                     R == IF up THEN IncLimbs(Q) ELSE Q
                 IN IF NumBits(R) > SigBits
                    THEN [m |-> ShiftRight(R, 1)[1], e |-> e + d + 1]
                    ELSE [m |-> R, e |-> e + d]

\* float(n) for a non-negative integer n
ffromint(n) == fround(NatLimbs(n), 0, FALSE)

\* x * k for a double x and an integer 0 <= k < 2^15 (k converts exactly)
fmulint(x, k) ==
    IF x.m = <<>> \/ k = 0 THEN fzero
    ELSE fround(StripLimbs(MulLimbs(x.m, k, 0)), x.e, FALSE)

\* x / k for a double x and an integer 0 < k < 2^15
fdivint(x, k) ==
    IF x.m = <<>> THEN fzero
    ELSE LET qr == DivLimbs(x.m \o Zeros(GuardLimbs), k, 0)
         IN fround(StripLimbs(qr[1]), x.e - LimbBits * GuardLimbs, qr[2] # 0)

\* x + y
fadd(x, y) ==
    IF x.m = <<>> THEN y
    ELSE IF y.m = <<>> THEN x
    ELSE LET lo == IF x.e < y.e THEN x.e ELSE y.e
         IN fround(StripLimbs(AddLimbs(ShiftLeft(x.m, x.e - lo),
                                       ShiftLeft(y.m, y.e - lo), 0)), lo, FALSE)

RECURSIVE LimbsLess(_, _)
LimbsLess(A, B) ==
    IF A = <<>> THEN FALSE
    ELSE IF A[1] # B[1] THEN A[1] < B[1]
    ELSE LimbsLess(Tail(A), Tail(B))

\* x < y
fless(x, y) ==
    IF y.m = <<>> THEN FALSE
    ELSE IF x.m = <<>> THEN TRUE
    ELSE IF x.e # y.e THEN x.e < y.e
    ELSE LimbsLess(x.m, y.m)

\* int(x): truncation of a non-negative double below 2^31
ftrunc(x) ==
    IF x.m = <<>> THEN 0
    ELSE IF x.e >= 0 THEN LimbsNat(ShiftLeft(x.m, x.e))
    ELSE LimbsNat(ShiftRight(x.m, 0 - x.e)[1])

----------------------------------------------------------------------------
(* difflib.SequenceMatcher(None, a, b) as compare_phonemes uses it.        *)
(* Indices are Python's (from 0); a[i] of the code is a[i + 1] here.  The  *)
(* automatic junk heuristic only acts on sequences of 200 or more elements *)
(* and is outside the lengths modelled.                                    *)

Min2(x, y) == IF x < y THEN x ELSE y
Max2(x, y) == IF x < y THEN y ELSE x

\* RunLength with the run cut one element before the end of the ranges
RunLength_short(a, b, i, j, ahi, bhi) ==
    LET lim == Max2(Min2(ahi - i, bhi - j) - 1, 0)
    IN CHOOSE k \in 0..lim :
          /\ \A l \in 0..(k - 1) : a[i + l + 1] = b[j + l + 1]
          /\ (k = lim \/ a[i + k + 1] # b[j + k + 1])

\* length of the longest common run that starts at a[i], b[j] and stays
\* inside a[.. ahi), b[.. bhi)
RunLength(a, b, i, j, ahi, bhi) ==
    LET lim == Min2(ahi - i, bhi - j)
    IN CHOOSE k \in 0..lim :
          /\ \A l \in 0..(k - 1) : a[i + l + 1] = b[j + l + 1]
          /\ (k = lim \/ a[i + k + 1] # b[j + k + 1])

\* the longest matching block of a[alo:ahi] and b[blo:bhi]; of all maximal
\* blocks the one that starts earliest in a, and of those the one that
\* starts earliest in b; <<alo, blo, 0>> when nothing matches
find_longest_match(a, b, alo, ahi, blo, bhi) ==
    IF alo >= ahi \/ blo >= bhi THEN <<alo, blo, 0>>
    ELSE LET run == [p \in (alo..(ahi - 1)) \X (blo..(bhi - 1)) |->
                        RunLength(a, b, p[1], p[2], ahi, bhi)]
             bestsize == CHOOSE k \in {run[p] : p \in DOMAIN run} :
                            \A p \in DOMAIN run : run[p] <= k
         IN IF bestsize = 0 THEN <<alo, blo, 0>>
            ELSE LET besti == CHOOSE i \in alo..(ahi - 1) :
                                 /\ \E j \in blo..(bhi - 1) : run[<<i, j>>] = bestsize
                                 /\ \A i2 \in alo..(i - 1) : \A j \in blo..(bhi - 1) :
                                        run[<<i2, j>>] # bestsize
                     bestj == CHOOSE j \in blo..(bhi - 1) :
                                 /\ run[<<besti, j>>] = bestsize
                                 /\ \A j2 \in blo..(j - 1) : run[<<besti, j2>>] # bestsize
                 IN <<besti, bestj, bestsize>>

\* the blocks found by the queue of get_matching_blocks, in sorted order
\* (the block, what lies left of it, what lies right of it)
RECURSIVE matching_blocks_in(_, _, _, _, _, _)
matching_blocks_in(a, b, alo, ahi, blo, bhi) ==
    LET x == find_longest_match(a, b, alo, ahi, blo, bhi)
        i == x[1]
        j == x[2]
        k == x[3]
    IN IF k = 0 THEN <<>>
       ELSE (IF alo < i /\ blo < j
             THEN matching_blocks_in(a, b, alo, i, blo, j) ELSE <<>>)
            \o <<x>>
            \o (IF i + k < ahi /\ j + k < bhi
                THEN matching_blocks_in(a, b, i + k, ahi, j + k, bhi) ELSE <<>>)

\* adjacent blocks are merged: cur is the block being grown
RECURSIVE collapse_adjacent(_, _, _)
collapse_adjacent(blocks, n, cur) ==
    IF n > Len(blocks)
    THEN (IF cur[3] > 0 THEN <<cur>> ELSE <<>>)
    ELSE LET x == blocks[n]
         IN IF cur[1] + cur[3] = x[1] /\ cur[2] + cur[3] = x[2]
            THEN collapse_adjacent(blocks, n + 1, <<cur[1], cur[2], cur[3] + x[3]>>)
            ELSE (IF cur[3] > 0 THEN <<cur>> ELSE <<>>)
                 \o collapse_adjacent(blocks, n + 1, x)

get_matching_blocks(a, b) ==
    collapse_adjacent(matching_blocks_in(a, b, 0, Len(a), 0, Len(b)), 1, <<0, 0, 0>>)
    \o << <<Len(a), Len(b), 0>> >>

\* opcodes <<tag, i1, i2, j1, j2>> from block n on, (i, j) being the first
\* indices not yet covered
RECURSIVE opcodes_from(_, _, _, _)
opcodes_from(blocks, n, i, j) ==
    IF n > Len(blocks) THEN <<>>
    ELSE LET ai == blocks[n][1]
             bj == blocks[n][2]
             size == blocks[n][3]
             tag == IF i < ai /\ j < bj THEN "replace"
                    ELSE IF i < ai THEN "delete"
                    ELSE IF j < bj THEN "insert"
                    ELSE ""
         IN (IF tag # "" THEN << <<tag, i, ai, j, bj>> >> ELSE <<>>)
            \o (IF size > 0 THEN << <<"equal", ai, ai + size, bj, bj + size>> >> ELSE <<>>)
            \o opcodes_from(blocks, n + 1, ai + size, bj + size)

get_opcodes(a, b) == opcodes_from(get_matching_blocks(a, b), 1, 0, 0)

RECURSIVE SumSizes(_, _)
SumSizes(blocks, n) ==
    IF n > Len(blocks) THEN 0 ELSE blocks[n][3] + SumSizes(blocks, n + 1)

\* ratio with 0.0, not 1.0, for two empty sequences
ratio_empty_zero(a, b) ==
    LET matches == SumSizes(get_matching_blocks(a, b), 1)
        length == Len(a) + Len(b)
    IN IF length > 0 THEN fdivint(ffromint(2 * matches), length) ELSE fzero

\* 2.0 * matches / length, 1.0 for two empty sequences
ratio(a, b) ==
    LET matches == SumSizes(get_matching_blocks(a, b), 1)
        length == Len(a) + Len(b)
    IN IF length > 0 THEN fdivint(ffromint(2 * matches), length) ELSE ffromint(1)

----------------------------------------------------------------------------
(* ScorerService.compare_phonemes *)

\* details_of with a replace block cut to the shorter side (zip)
details_of_zip(ref_phonemes, user_phonemes, op) ==
    LET tag == op[1]
        i1 == op[2]
        i2 == op[3]
        j1 == op[4]
        j2 == op[5]
    IN IF tag = "equal"
       THEN [k \in 1..(i2 - i1) |->
                [phoneme |-> ref_phonemes[i1 + k], status |-> "match",
                 user |-> user_phonemes[j1 + k]]]
       ELSE IF tag = "replace"
       THEN [k \in 1..Min2(i2 - i1, j2 - j1) |->
                [phoneme |-> ref_phonemes[i1 + k], status |-> "substitution",
                 user |-> user_phonemes[j1 + k]]]
       ELSE IF tag = "delete"
       THEN [k \in 1..(i2 - i1) |->
                [phoneme |-> ref_phonemes[i1 + k], status |-> "missing", user |-> ""]]
       ELSE [k \in 1..(j2 - j1) |->
                [phoneme |-> "", status |-> "insertion", user |-> user_phonemes[j1 + k]]]

\* the detail entries appended for one opcode
details_of(ref_phonemes, user_phonemes, op) ==
    LET tag == op[1]
        i1 == op[2]
        i2 == op[3]
        j1 == op[4]
        j2 == op[5]
    IN IF tag = "equal"
       THEN [k \in 1..(i2 - i1) |->
                [phoneme |-> ref_phonemes[i1 + k], status |-> "match",
                 user |-> user_phonemes[j1 + k]]]
       ELSE IF tag = "replace"
       THEN [k \in 1..Max2(i2 - i1, j2 - j1) |->
                [phoneme |-> IF k <= i2 - i1 THEN ref_phonemes[i1 + k] ELSE "",
                 status |-> "substitution",
                 user |-> IF k <= j2 - j1 THEN user_phonemes[j1 + k] ELSE ""]]
       ELSE IF tag = "delete"
       THEN [k \in 1..(i2 - i1) |->
                [phoneme |-> ref_phonemes[i1 + k], status |-> "missing", user |-> ""]]
       ELSE [k \in 1..(j2 - j1) |->
                [phoneme |-> "", status |-> "insertion", user |-> user_phonemes[j1 + k]]]

RECURSIVE details_from(_, _, _, _)
details_from(ref_phonemes, user_phonemes, opcodes, n) ==
    IF n > Len(opcodes) THEN <<>>
    ELSE details_of(ref_phonemes, user_phonemes, opcodes[n])
         \o details_from(ref_phonemes, user_phonemes, opcodes, n + 1)

\* compare_phonemes with the two sequences taken for one another
compare_phonemes_swapped(ref_phonemes, user_phonemes) ==
    [score |-> ftrunc(fmulint(ratio(user_phonemes, ref_phonemes), 100)),
     details |-> details_from(user_phonemes, ref_phonemes,
                              get_opcodes(user_phonemes, ref_phonemes), 1)]

compare_phonemes(ref_phonemes, user_phonemes) ==
    [score |-> ftrunc(fmulint(ratio(ref_phonemes, user_phonemes), 100)),
     details |-> details_from(ref_phonemes, user_phonemes,
                              get_opcodes(ref_phonemes, user_phonemes), 1)]

\* SequenceMatcher hashes the elements of its second sequence (b2j),
\* so a hypothesis of dicts makes compare_phonemes raise TypeError
compare_segments(ref_phonemes, user_segments) ==
    IF user_segments # <<>>
    THEN [raised |-> "TypeError", score |-> 0, details |-> <<>>]
    ELSE [raised |-> ""] @@ compare_phonemes(ref_phonemes, <<>>)

----------------------------------------------------------------------------
(* normalize_ipa_sequence.  A string is a sequence of characters; the      *)
(* characters outside ASCII are written by name.                           *)

\* [ˈˌː' \-.] of the re.sub: primary stress, secondary stress, length mark,
\* apostrophe, space, hyphen, full stop
StrippedMarks == {"STRESS1", "STRESS2", "LENGTH", "'", " ", "-", "."}
\* characters for which str.strip() leaves nothing
Whitespace == {" ", "TAB"}
\* "g" is LATIN SMALL LETTER G, "SCRIPT_G" is U+0261
IpaChars == {"a", "g", "STRESS1", "TAB"}

RECURSIVE join(_)
join(ipa_list) ==
    IF ipa_list = <<>> THEN <<>> ELSE Head(ipa_list) \o join(Tail(ipa_list))

\* re.sub with count=1: only the first mark is removed
strip_first_mark(full_str) ==
    IF \E i \in 1..Len(full_str) : full_str[i] \in StrippedMarks
    THEN LET first == CHOOSE i \in 1..Len(full_str) :
                         /\ full_str[i] \in StrippedMarks
                         /\ \A j \in 1..(i - 1) : full_str[j] \notin StrippedMarks
         IN SubSeq(full_str, 1, first - 1) \o SubSeq(full_str, first + 1, Len(full_str))
    ELSE full_str

\* re.sub(r"[ˈˌː' \-.]", "", full_str), every occurrence
strip_marks(full_str) == SelectSeq(full_str, LAMBDA c : c \notin StrippedMarks)

\* full_str.replace("g", "ɡ")
standardize(full_str) ==
    [i \in 1..Len(full_str) |-> IF full_str[i] = "g" THEN "SCRIPT_G" ELSE full_str[i]]

normalize_ipa_sequence(ipa_list) ==
    LET full_str == standardize(strip_marks(join(ipa_list)))
        symbols == [i \in 1..Len(full_str) |-> <<full_str[i]>>]
    IN SelectSeq(symbols, LAMBDA s : s[1] \notin Whitespace)

----------------------------------------------------------------------------
(* State *)

VARIABLES
    pc,              \* where the call under way stands
    ref_phonemes,    \* compare_phonemes / score_practice: the reference
    user_phonemes,   \* the hypothesis: symbols, or recognizer segments
    score_result,    \* what compare_phonemes returned
    response,        \* the HTTP response of score_practice
    user_audio,      \* the upload of score_practice under INPUT_DIR
    ipa_list,        \* the list normalize_ipa_sequence is given
    normalized,      \* the results of the successive normalizations
    log_probs,           \* transcribe: the acoustic model's rows, [T, V]
    audio_len,           \* len(audio) after trimming, in samples
    orig_start_idx,      \* first sample of the first non-silent interval
    expected_phonemes,   \* transcribe's parameters
    confidence_threshold,
    min_duration_ms,
    ms_per_frame,        \* doubles
    offset_ms,
    refined_log_probs,
    t,                   \* frames done by the loop under way
    top_idx,             \* the beam search's topk at the last frame, per beam_width
    beam,                \* the beam, per beam_width
    final_segments       \* what transcribe returns, per beam_width

transcribe_vars ==
    <<log_probs, audio_len, orig_start_idx, expected_phonemes, confidence_threshold,
      min_duration_ms, ms_per_frame, offset_ms, refined_log_probs, t, top_idx, beam,
      final_segments>>

vars == <<pc, ref_phonemes, user_phonemes, score_result, response, user_audio,
          ipa_list, normalized, transcribe_vars>>

SeqsUpTo(S, n) == UNION {[1..m -> S] : m \in 0..n}

NoScore == [score |-> 0, details |-> <<>>]
NoResponse == [status |-> 0, score |-> 0, details |-> <<>>]

scorer_idle == /\ ref_phonemes = <<>>
               /\ user_phonemes = <<>>
               /\ score_result = NoScore
route_idle == /\ response = NoResponse
              /\ user_audio = "none"
normalizer_idle == /\ ipa_list = <<>>
                   /\ normalized = <<>>
transcribe_idle == /\ log_probs = <<>>
                   /\ audio_len = 0
                   /\ orig_start_idx = 0
                   /\ expected_phonemes = <<>>
                   /\ confidence_threshold = 0
                   /\ min_duration_ms = 0
                   /\ ms_per_frame = fzero
                   /\ offset_ms = fzero
                   /\ refined_log_probs = <<>>
                   /\ t = 0
                   /\ top_idx = <<>>
                   /\ beam = <<>>
                   /\ final_segments = <<>>

----------------------------------------------------------------------------
(* compare_phonemes on symbol sequences *)

ScoreSymbols == {"k", "ae", "t", "i"}

Run(sym, n) == [i \in 1..n |-> sym]

\* every pair of short sequences, and a long reference of one symbol against
\* hypotheses that agree with it on a prefix
ScoreInputs ==
    (SeqsUpTo(ScoreSymbols, MaxLen) \X SeqsUpTo(ScoreSymbols, MaxLen))
    \cup {<<Run("k", LongLen), Run("k", m) \o Run("t", LongLen - m)>> : m \in 0..LongLen}

InitScorer ==
    /\ pc = "call"
    /\ \E p \in ScoreInputs : ref_phonemes = p[1] /\ user_phonemes = p[2]
    /\ score_result = NoScore
    /\ route_idle
    /\ normalizer_idle
    /\ transcribe_idle

ComparePhonemes ==
    /\ pc = "call"
    /\ score_result' = compare_phonemes(ref_phonemes, user_phonemes)
    /\ pc' = "returned"
    /\ UNCHANGED <<ref_phonemes, user_phonemes, response, user_audio, ipa_list,
                   normalized, transcribe_vars>>

NextScorer == ComparePhonemes

SpecScorer == InitScorer /\ [][NextScorer]_vars

----------------------------------------------------------------------------
(* score_practice: the recognizer's segments are scored against the        *)
(* reference                                                               *)

\* segments as transcribe builds them
SegmentSamples ==
    [phoneme : {"k", "t"}, start_ms : {0}, end_ms : {40}, confidence : {50, 90},
     num_frames : {2}]

InitRoute ==
    /\ pc = "call"
    /\ ref_phonemes \in SeqsUpTo(ScoreSymbols, MaxLen)
    /\ user_phonemes \in SeqsUpTo(SegmentSamples, MaxSegments)
    /\ score_result = NoScore
    /\ response = NoResponse
    /\ user_audio = "none"
    /\ normalizer_idle
    /\ transcribe_idle

\* the upload is saved first and removed after the scoring; any exception
\* inside the try block becomes HTTP 500
score_practice ==
    /\ pc = "call"
    /\ LET r == compare_segments(ref_phonemes, user_phonemes)
       IN /\ score_result' = IF r.raised = "" THEN [score |-> r.score, details |-> r.details]
                             ELSE score_result
          /\ response' = IF r.raised = ""
                         THEN [status |-> 200, score |-> r.score, details |-> r.details]
                         ELSE [status |-> 500, score |-> 0, details |-> <<>>]
          /\ user_audio' = IF r.raised = "" THEN "removed" ELSE "saved"
    /\ pc' = "responded"
    /\ UNCHANGED <<ref_phonemes, user_phonemes, ipa_list, normalized, transcribe_vars>>

NextRoute == score_practice

SpecRoute == InitRoute /\ [][NextRoute]_vars

----------------------------------------------------------------------------
(* normalize_ipa_sequence applied to a list, then to its own result *)

IpaStrings == SeqsUpTo(IpaChars, MaxTokenLen)

InitNormalizer ==
    /\ pc = "call"
    /\ ipa_list \in SeqsUpTo(IpaStrings, MaxTokens)
    /\ normalized = <<>>
    /\ scorer_idle
    /\ route_idle
    /\ transcribe_idle

Normalize ==
    /\ pc = "call"
    /\ normalized' = Append(normalized,
                            normalize_ipa_sequence(IF normalized = <<>> THEN ipa_list
                                                   ELSE normalized[Len(normalized)]))
    /\ pc' = IF Len(normalized) >= 1 THEN "returned" ELSE "call"
    /\ UNCHANGED <<ref_phonemes, user_phonemes, score_result, response, user_audio,
                   ipa_list, transcribe_vars>>

NextNormalizer == Normalize

SpecNormalizer == InitNormalizer /\ [][NextNormalizer]_vars

----------------------------------------------------------------------------
(* RecognizerService.transcribe: frame timing, refinement of the rows, CTC  *)
(* prefix beam search with segment traces, extraction of the segments.      *)
(*                                                                          *)
(* A row holds one non-negative weight per token id; a token's probability  *)
(* is its weight over the row's sum and the weight 0 is the log-probability *)
(* -inf.  Renormalising a row (log_softmax) rescales all its weights by one *)
(* positive factor, so the masses of the prefixes at a frame are held up to *)
(* a factor that is the same for every prefix and every beam width.         *)

sample_rate == 16000
vocab_size == 5
blank_id == 0
TokenIds == 0..(vocab_size - 1)
None == -1

\* tokenizer.get_vocab(), by token id + 1
vocab_tokens == << <<"<pad>">>, <<"a">>, <<"g">>, <<"a", "i">>, <<"k">> >>

\* self.vocab.get(p)
vocab_get(p) ==
    IF \E id \in TokenIds : vocab_tokens[id + 1] = p
    THEN CHOOSE id \in TokenIds : vocab_tokens[id + 1] = p
    ELSE None

\* self.processor.decode([p_id]): the pad token decodes to the empty string
decode(p_id) == IF p_id = blank_id THEN <<>> ELSE vocab_tokens[p_id + 1]

RECURSIVE RowSum(_, _)
RowSum(row, n) == IF n = 0 THEN 0 ELSE row[n] + RowSum(row, n - 1)

\* the orders in which k token ids can come back from torch.topk
TopOrders ==
    [k \in 1..vocab_size |->
        {s \in [1..k -> TokenIds] : \A i, j \in 1..k : i # j => s[i] # s[j]}]

\* torch.topk(row, k): the ids of the k largest values, largest first; which
\* of several equal values comes first, or is left out, is not specified
topk(row, k) ==
    {s \in TopOrders[k] :
        /\ \A i \in 1..(k - 1) : row[s[i] + 1] >= row[s[i + 1] + 1]
        /\ \A id \in TokenIds :
              (\A i \in 1..k : s[i] # id) => row[id + 1] <= row[s[k] + 1]}

\* the refiner looks at the five largest values of a row
refine_k == 5
\* the beam search never looks at more than twenty tokens of a row
max_top == 20
\* exp(phoneme_boost), for a call with phoneme_boost = ln 2
boost_factor == 2

\* max_prob < confidence_threshold, the threshold being given in tenths
uncertain(row, top_k_indices, threshold) ==
    10 * row[top_k_indices[1] + 1] < threshold * RowSum(row, vocab_size)

suppress_blank_too(row, top_k_indices) ==
    [i \in 1..vocab_size |->
        IF (i - 1) \in {top_k_indices[1], top_k_indices[2]} THEN row[i] ELSE 0]

\* everything but the two most likely tokens and the blank is set to -inf
suppress(row, top_k_indices) ==
    [i \in 1..vocab_size |->
        IF (i - 1) \in {top_k_indices[1], top_k_indices[2], blank_id}
        THEN row[i] ELSE 0]

\* the boost of the expected phonemes from the n-th on, each only when its
\* token is among the three most likely of the row
RECURSIVE boost_expected(_, _, _, _)
boost_expected(row, top_k_indices, expected, n) ==
    IF n > Len(expected) THEN row
    ELSE LET token_id == vocab_get(expected[n])
             boosted == IF /\ token_id # None
                           /\ token_id \in {top_k_indices[1], top_k_indices[2],
                                            top_k_indices[3]}
                        THEN [row EXCEPT ![token_id + 1] = @ * boost_factor]
                        ELSE row
         IN boost_expected(boosted, top_k_indices, expected, n + 1)

refine_frame(row, top_k_indices, expected, threshold) ==
    boost_expected(IF uncertain(row, top_k_indices, threshold)
                   THEN suppress(row, top_k_indices) ELSE row,
                   top_k_indices, expected, 1)

\* the beam is a dict; it is held as the sequence of its items in insertion
\* order, an item being the prefix with its state
initial_beam == << [prefix |-> <<>>, b |-> 1, nb |-> 0, segs |-> <<>>] >>

\* logaddexp(b, nb)
Total(state) == state.b + state.nb

IndexOf(new_beam, prefix) ==
    IF \E i \in 1..Len(new_beam) : new_beam[i].prefix = prefix
    THEN CHOOSE i \in 1..Len(new_beam) : new_beam[i].prefix = prefix
    ELSE 0

\* new_beam[prefix] of the defaultdict: a missing key is inserted
new_beam_get(new_beam, prefix) ==
    IF IndexOf(new_beam, prefix) = 0
    THEN Append(new_beam, [prefix |-> prefix, b |-> 0, nb |-> 0, segs |-> <<>>])
    ELSE new_beam

extend_char_no_repeat(new_beam, state, char_id, lp_char, frame) ==
    LET prefix == state.prefix
        new_prefix == Append(prefix, char_id)
        new_segs == Append(state.segs, [p_id |-> char_id, frames |-> <<frame>>])
        with_new == new_beam_get(new_beam, new_prefix)
        new_state == IndexOf(with_new, new_prefix)
    IN IF char_id = blank_id THEN new_beam
       ELSE [with_new EXCEPT
                ![new_state].nb = @ + (state.b + state.nb) * lp_char,
                ![new_state].segs = IF @ = <<>> THEN new_segs ELSE @]

\* one token of top_idx applied to one item of the beam
extend_char(new_beam, state, char_id, lp_char, frame) ==
    LET prefix == state.prefix
        new_prefix == Append(prefix, char_id)
        last_char == IF prefix = <<>> THEN None ELSE prefix[Len(prefix)]
        new_segs == Append(state.segs, [p_id |-> char_id, frames |-> <<frame>>])
        with_new == new_beam_get(new_beam, new_prefix)
        existing == IndexOf(new_beam, prefix)
        new_state == IndexOf(with_new, new_prefix)
    IN IF char_id = blank_id THEN new_beam
       ELSE IF char_id = last_char
       THEN [with_new EXCEPT
                ![existing].nb = @ + state.nb * lp_char,
                ![new_state].nb = @ + state.b * lp_char,
                ![new_state].segs = IF @ = <<>> THEN new_segs ELSE @]
       ELSE [with_new EXCEPT
                ![new_state].nb = @ + (state.b + state.nb) * lp_char,
                ![new_state].segs = IF @ = <<>> THEN new_segs ELSE @]

RECURSIVE extend_chars(_, _, _, _, _, _)
extend_chars(new_beam, state, frame_lp, top, frame, i) ==
    IF i > Len(top) THEN new_beam
    ELSE extend_chars(extend_char(new_beam, state, top[i], frame_lp[top[i] + 1], frame),
                      state, frame_lp, top, frame, i + 1)

\* the frame is added to the last segment of the trace
extend_last(segs, frame) == [segs EXCEPT ![Len(segs)].frames = Append(@, frame)]

\* one item of the beam: the blank, the tokens of top_idx, the segment trace
\* of the prefix itself
update_state(new_beam, state, frame_lp, top, frame) ==
    LET with_existing == new_beam_get(new_beam, state.prefix)
        existing == IndexOf(with_existing, state.prefix)
        after_blank == [with_existing EXCEPT
                           ![existing].b = @ + (state.b + state.nb) * frame_lp[blank_id + 1],
                           ![existing].segs = state.segs]
        after_chars == extend_chars(after_blank, state, frame_lp, top, frame, 1)
    IN IF state.segs # <<>> /\ state.nb > 0
       THEN [after_chars EXCEPT ![existing].segs = extend_last(state.segs, frame)]
       ELSE after_chars

RECURSIVE update_states(_, _, _, _, _, _)
update_states(new_beam, old_beam, frame_lp, top, frame, n) ==
    IF n > Len(old_beam) THEN new_beam
    ELSE update_states(update_state(new_beam, old_beam[n], frame_lp, top, frame),
                       old_beam, frame_lp, top, frame, n + 1)

sorted_beam_last_first(new_beam) ==
    LET n == Len(new_beam)
        rank(i) == 1 + Cardinality({j \in 1..n :
                        \/ Total(new_beam[j]) > Total(new_beam[i])
                        \/ Total(new_beam[j]) = Total(new_beam[i]) /\ j > i})
    IN [r \in 1..n |-> new_beam[CHOOSE i \in 1..n : rank(i) = r]]

\* sorted(..., reverse=True) is stable: items of equal total keep their order
sorted_beam(new_beam) ==
    LET n == Len(new_beam)
        rank(i) == 1 + Cardinality({j \in 1..n :
                        \/ Total(new_beam[j]) > Total(new_beam[i])
                        \/ Total(new_beam[j]) = Total(new_beam[i]) /\ j < i})
    IN [r \in 1..n |-> new_beam[CHOOSE i \in 1..n : rank(i) = r]]

prune(sorted, beam_width) == SubSeq(sorted, 1, Min2(beam_width, Len(sorted)))

\* one frame of the beam search for one beam width
decode_frame(old_beam, frame_lp, top, frame, beam_width) ==
    prune(sorted_beam(update_states(<<>>, old_beam, frame_lp, top, frame, 1)), beam_width)

\* a probability is a weight over its row's sum
prob_less(p, q) == p.num * q.den < q.num * p.den

\* np.median of the probabilities the original rows give the token
median_conf(rows, p_id, frames) ==
    LET n == Len(frames)
        frame_probs == [i \in 1..n |-> [num |-> rows[frames[i] + 1][p_id + 1],
                                        den |-> RowSum(rows[frames[i] + 1], vocab_size)]]
        rank(i) == 1 + Cardinality({j \in 1..n :
                        \/ prob_less(frame_probs[j], frame_probs[i])
                        \/ (~prob_less(frame_probs[i], frame_probs[j]) /\ j < i)})
        sorted == [r \in 1..n |-> frame_probs[CHOOSE i \in 1..n : rank(i) = r]]
        lo == sorted[n \div 2]
        hi == sorted[n \div 2 + 1]
    IN IF n % 2 = 1 THEN hi
       ELSE [num |-> lo.num * hi.den + hi.num * lo.den, den |-> 2 * lo.den * hi.den]

\* the segments of the best path from the n-th on; log_confidence, a function
\* of confidence alone, is left out of the record
RECURSIVE segments_from(_, _, _, _, _, _)
segments_from(segs, n, rows, mpf, offset, min_duration) ==
    IF n > Len(segs) THEN <<>>
    ELSE LET seg == segs[n]
             frames == seg.frames
             duration_ms == fmulint(mpf, Len(frames))
             norm_phones == normalize_ipa_sequence(<<decode(seg.p_id)>>)
             rest == segments_from(segs, n + 1, rows, mpf, offset, min_duration)
         IN IF fless(duration_ms, ffromint(min_duration)) THEN rest
            ELSE IF norm_phones = <<>> THEN rest
            ELSE << [phoneme |-> norm_phones[1],
                     start_ms |-> ftrunc(fadd(offset, fmulint(mpf, frames[1]))),
                     end_ms |-> ftrunc(fadd(offset, fmulint(mpf, frames[Len(frames)] + 1))),
                     confidence |-> median_conf(rows, seg.p_id, frames),
                     num_frames |-> Len(frames)] >> \o rest

\* the beam widths transcribe is called with, on the same audio
NarrowWidth == 1
WideWidth == 2
BeamWidths == {NarrowWidth, WideWidth}
top_size(beam_width) == Min2(max_top, beam_width * 2)

\* rows the acoustic model gives: every token has a positive probability
FrameRows ==
    {<<1, 5, 3, 4, 2>>, <<3, 2, 4, 5, 1>>, <<3, 1, 4, 5, 2>>, <<5, 1, 2, 3, 4>>,
     <<1, 16, 2, 3, 4>>}
LongRows == {<<1, 5, 2, 3, 4>>, <<1, 2, 5, 3, 4>>}

num_frames == Len(log_probs)

InitTranscribe ==
    /\ pc = "infer"
    /\ log_probs \in SeqsUpTo(FrameRows, MaxFrames)
    /\ audio_len = 960
    /\ orig_start_idx = 0
    /\ expected_phonemes \in {<<>>, << <<"a">> >>}
    /\ confidence_threshold \in {0, 6}
    /\ min_duration_ms \in {0, 30}
    /\ ms_per_frame = fzero
    /\ offset_ms = fzero
    /\ refined_log_probs = <<>>
    /\ t = 0
    /\ top_idx = <<>>
    /\ beam = <<>>
    /\ final_segments = <<>>
    /\ scorer_idle
    /\ route_idle
    /\ normalizer_idle

\* a longer utterance, decoded as it comes from the acoustic model
InitTranscribeLong ==
    /\ pc = "infer"
    /\ log_probs \in [1..LongFrames -> LongRows]
    /\ audio_len = 240
    /\ orig_start_idx \in {0, 16}
    /\ expected_phonemes = <<>>
    /\ confidence_threshold = 0
    /\ min_duration_ms \in {5, 10}
    /\ ms_per_frame = fzero
    /\ offset_ms = fzero
    /\ refined_log_probs = <<>>
    /\ t = 0
    /\ top_idx = <<>>
    /\ beam = <<>>
    /\ final_segments = <<>>
    /\ scorer_idle
    /\ route_idle
    /\ normalizer_idle

other_vars ==
    <<ref_phonemes, user_phonemes, score_result, response, user_audio, ipa_list, normalized>>

\* steps 1 to 5: the division by num_frames raises ZeroDivisionError when the
\* model gives no frame
Infer ==
    /\ pc = "infer"
    /\ IF num_frames = 0
       THEN /\ pc' = "raised"
            /\ UNCHANGED <<ms_per_frame, offset_ms, refined_log_probs>>
       ELSE /\ ms_per_frame' = fmulint(fdivint(fdivint(ffromint(audio_len), sample_rate),
                                               num_frames), 1000)
            /\ offset_ms' = fmulint(fdivint(ffromint(orig_start_idx), sample_rate), 1000)
            /\ refined_log_probs' = log_probs
            /\ pc' = "refine"
    /\ UNCHANGED <<log_probs, audio_len, orig_start_idx, expected_phonemes,
                   confidence_threshold, min_duration_ms, t, top_idx, beam,
                   final_segments, other_vars>>

\* step 6, one frame; after the last frame the beam is set up
RefineFrame ==
    /\ pc = "refine"
    /\ \E top_k_indices \in topk(refined_log_probs[t + 1], refine_k) :
          refined_log_probs' =
              [refined_log_probs EXCEPT
                  ![t + 1] = refine_frame(@, top_k_indices, expected_phonemes,
                                          confidence_threshold)]
    /\ IF t + 1 = num_frames
       THEN /\ pc' = "decode"
            /\ t' = 0
            /\ beam' = [w \in BeamWidths |-> initial_beam]
       ELSE /\ pc' = pc
            /\ t' = t + 1
            /\ beam' = beam
    /\ UNCHANGED <<log_probs, audio_len, orig_start_idx, expected_phonemes,
                   confidence_threshold, min_duration_ms, ms_per_frame, offset_ms,
                   top_idx, final_segments, other_vars>>

\* step 7, one frame, sort and prune included
DecodeFrame ==
    /\ pc = "decode"
    /\ LET frame_lp == refined_log_probs[t + 1]
       IN \E narrow \in topk(frame_lp, top_size(NarrowWidth)),
             wide \in topk(frame_lp, top_size(WideWidth)) :
             /\ top_idx' = [w \in BeamWidths |-> IF w = NarrowWidth THEN narrow ELSE wide]
             /\ beam' = [w \in BeamWidths |->
                            decode_frame(beam[w], frame_lp, top_idx'[w], t, w)]
    /\ t' = t + 1
    /\ pc' = IF t + 1 = num_frames THEN "extract" ELSE pc
    /\ UNCHANGED <<log_probs, audio_len, orig_start_idx, expected_phonemes,
                   confidence_threshold, min_duration_ms, ms_per_frame, offset_ms,
                   refined_log_probs, final_segments, other_vars>>

\* steps 8 and 9: the segments of the first item of the beam
Extract ==
    /\ pc = "extract"
    /\ final_segments' =
          [w \in BeamWidths |->
              segments_from(beam[w][1].segs, 1, log_probs, ms_per_frame, offset_ms,
                            min_duration_ms)]
    /\ pc' = "done"
    /\ UNCHANGED <<log_probs, audio_len, orig_start_idx, expected_phonemes,
                   confidence_threshold, min_duration_ms, ms_per_frame, offset_ms,
                   refined_log_probs, t, top_idx, beam, other_vars>>

NextTranscribe == Infer \/ RefineFrame \/ DecodeFrame \/ Extract

SpecTranscribe == InitTranscribe /\ [][NextTranscribe]_vars

SpecTranscribeLong == InitTranscribeLong /\ [][NextTranscribe]_vars

\* rows in which the blank or another symbol takes over for a frame
MidRows == {<<1, 2, 5, 3, 4>>, <<5, 3, 4, 2, 1>>, <<4, 3, 5, 1, 2>>, <<1, 2, 4, 3, 5>>}

InitTranscribeMid ==
    /\ pc = "infer"
    /\ log_probs \in [1..MidFrames -> MidRows]
    /\ audio_len = 1600
    /\ orig_start_idx = 0
    /\ expected_phonemes = <<>>
    /\ confidence_threshold = 0
    /\ min_duration_ms = 0
    /\ ms_per_frame = fzero
    /\ offset_ms = fzero
    /\ refined_log_probs = <<>>
    /\ t = 0
    /\ top_idx = <<>>
    /\ beam = <<>>
    /\ final_segments = <<>>
    /\ scorer_idle
    /\ route_idle
    /\ normalizer_idle

SpecTranscribeMid == InitTranscribeMid /\ [][NextTranscribe]_vars

----------------------------------------------------------------------------
(* Properties of compare_phonemes (SpecScorer) *)

CountOps(details, P(_)) == Cardinality({k \in 1..Len(details) : P(details[k])})

RefStatuses == {"match", "substitution", "missing"}
HypStatuses == {"match", "substitution", "insertion"}

\* C1 as the specification states it: the ops with status match,
\* substitution or missing number len(ref), and the ops with status match,
\* substitution or insertion number len(hyp).
C1_StatusCounts ==
    pc = "returned" =>
        /\ CountOps(score_result.details, LAMBDA op : op.status \in RefStatuses)
              = Len(ref_phonemes)
        /\ CountOps(score_result.details, LAMBDA op : op.status \in HypStatuses)
              = Len(user_phonemes)

\* C1, amended: the ops with status match, substitution or missing that carry
\* a reference symbol number len(ref), and the ops with status match,
\* substitution or insertion that carry a hypothesis symbol number len(hyp).
C1_SymbolCounts ==
    pc = "returned" =>
        /\ CountOps(score_result.details,
                    LAMBDA op : op.status \in RefStatuses /\ op.phoneme # "")
              = Len(ref_phonemes)
        /\ CountOps(score_result.details,
                    LAMBDA op : op.status \in HypStatuses /\ op.user # "")
              = Len(user_phonemes)

\* a replace block of unequal sides has been scored
C1_Witness ==
    /\ pc = "returned"
    /\ \E k \in 1..Len(score_result.details) :
          /\ score_result.details[k].status = "substitution"
          /\ score_result.details[k].user = ""

\* C2: when len(ref) + len(hyp) > 0 the score is floor(100 * 2M / (R + H)),
\* M being the number of match ops; [k, ae, t] against [k, i, t] gives two
\* match ops, one substitution op and score 66.
C2_ScoreIsFloor ==
    pc = "returned" =>
        LET M == CountOps(score_result.details, LAMBDA op : op.status = "match")
            L == Len(ref_phonemes) + Len(user_phonemes)
        IN /\ L > 0 => score_result.score = (200 * M) \div L
           /\ (ref_phonemes = <<"k", "ae", "t">> /\ user_phonemes = <<"k", "i", "t">>) =>
                 /\ M = 2
                 /\ CountOps(score_result.details,
                             LAMBDA op : op.status = "substitution") = 1
                 /\ Len(score_result.details) = 3
                 /\ score_result.score = 66

\* C3: a sequence compared with itself scores 100 and yields one match op per
\* symbol, the k-th carrying that symbol as phoneme and as user.
C3_IdenticalSequences ==
    (pc = "returned" /\ ref_phonemes = user_phonemes) =>
        /\ score_result.score = 100
        /\ score_result.details =
              [k \in 1..Len(ref_phonemes) |->
                  [phoneme |-> ref_phonemes[k], status |-> "match",
                   user |-> ref_phonemes[k]]]

C3_Witness ==
    /\ pc = "returned"
    /\ ref_phonemes = <<"k", "ae", "t">>
    /\ user_phonemes = ref_phonemes
    /\ Len(score_result.details) = 3

\* C5: with an empty input compare_phonemes still returns: 100 and no ops for
\* two empty sequences, 0 and one insertion op per hypothesis symbol for an
\* empty reference, 0 and one missing op per reference symbol for an empty
\* hypothesis.
C5_EmptyInputs ==
    pc = "returned" =>
        /\ (ref_phonemes = <<>> /\ user_phonemes = <<>>) =>
              score_result = [score |-> 100, details |-> <<>>]
        /\ (ref_phonemes = <<>> /\ user_phonemes # <<>>) =>
              score_result =
                 [score |-> 0,
                  details |-> [k \in 1..Len(user_phonemes) |->
                                  [phoneme |-> "", status |-> "insertion",
                                   user |-> user_phonemes[k]]]]
        /\ (ref_phonemes # <<>> /\ user_phonemes = <<>>) =>
              score_result =
                 [score |-> 0,
                  details |-> [k \in 1..Len(ref_phonemes) |->
                                  [phoneme |-> ref_phonemes[k], status |-> "missing",
                                   user |-> ""]]]

C5_Witness ==
    /\ pc = "returned"
    /\ ref_phonemes = <<>>
    /\ Len(user_phonemes) = MaxLen
    /\ Len(score_result.details) = MaxLen
    /\ score_result.score = 0

----------------------------------------------------------------------------
(* Properties of score_practice (SpecRoute) *)

HasTiming(op) == {"confidence", "start_ms", "end_ms"} \subseteq DOMAIN op

\* C4: scoring the recognizer's segments yields a ScoreResult in which every
\* op that has a hypothesis symbol (match, substitution with a hypothesis
\* symbol, insertion) carries the confidence, start_ms and end_ms of the
\* hypothesis segment at that position, and missing ops carry none.
C4_OpsCarryConfidenceAndTiming ==
    pc = "responded" =>
        /\ response.status = 200
        /\ LET hyp_ops == SelectSeq(response.details, LAMBDA op : op.user # "")
           IN /\ Len(hyp_ops) = Len(user_phonemes)
              /\ \A j \in 1..Len(hyp_ops) :
                    /\ HasTiming(hyp_ops[j])
                    /\ hyp_ops[j].user = user_phonemes[j].phoneme
                    /\ hyp_ops[j].confidence = user_phonemes[j].confidence
                    /\ hyp_ops[j].start_ms = user_phonemes[j].start_ms
                    /\ hyp_ops[j].end_ms = user_phonemes[j].end_ms
        /\ \A k \in 1..Len(response.details) :
              response.details[k].status = "missing" =>
                 DOMAIN response.details[k] \cap {"confidence", "start_ms", "end_ms"} = {}

----------------------------------------------------------------------------
(* Properties of normalize_ipa_sequence (SpecNormalizer) *)

\* C9: normalize_ipa_sequence returns a list for every list of strings, and
\* normalizing its result again returns the same list.
C9_TotalAndIdempotent ==
    /\ pc = "returned" => Len(normalized) = 2
    /\ \A n \in 1..Len(normalized) :
          \A k \in 1..Len(normalized[n]) : Len(normalized[n][k]) = 1
    /\ Len(normalized) = 2 => normalized[2] = normalized[1]

\* a list with a stress mark, a "g" and a string of two characters that
\* survive has been normalized twice
C9_Witness ==
    /\ Len(normalized) = 2
    /\ ipa_list = << <<"STRESS1", "g">>, <<"a", "a">> >>
    /\ normalized[2] = << <<"SCRIPT_G">>, <<"a">>, <<"a">> >>

----------------------------------------------------------------------------
(* Properties of RecognizerService.transcribe (SpecTranscribe,              *)
(* SpecTranscribeLong)                                                      *)

\* C6: every segment transcribe returns satisfies
\* end_ms - start_ms >= min_duration_ms.
C6_SegmentsLastMinDuration ==
    pc = "done" =>
        \A w \in BeamWidths : \A i \in 1..Len(final_segments[w]) :
            final_segments[w][i].end_ms - final_segments[w][i].start_ms >= min_duration_ms

\* C7: for the same refined rows, the total mass of the winning beam entry
\* after the last frame with the wider beam is at least the one with the
\* narrower beam.
C7_WiderBeamNeverLower ==
    pc \in {"extract", "done"} =>
        Total(beam[WideWidth][1]) >= Total(beam[NarrowWidth][1])

\* C8: when the matrix has no frame (T = 0) transcribe raises no error and
\* returns an empty list of segments.
C8_NoFramesEmptyList ==
    num_frames = 0 =>
        /\ pc # "raised"
        /\ pc = "done" => \A w \in BeamWidths : final_segments[w] = <<>>

\* the repeat-extension transition gave non-blank mass to the prefix of state
\* at the frame whose row is frame_lp
repeat_contributed(state, frame_lp, top) ==
    /\ state.prefix # <<>>
    /\ \E i \in 1..Len(top) : top[i] = state.prefix[Len(state.prefix)]
    /\ state.nb * frame_lp[state.prefix[Len(state.prefix)] + 1] > 0

\* C10: a frame is added to the last segment of a prefix only if the
\* repeat-extension transition contributed non-blank mass to that prefix at
\* the frame; a prefix carried over the frame by the blank transition alone
\* keeps its segment trace.
C10_BlankKeepsTrace ==
    [][pc = "decode" =>
          \A w \in BeamWidths : \A i \in 1..Len(beam[w]) : \A j \in 1..Len(beam'[w]) :
              (/\ beam'[w][j].prefix = beam[w][i].prefix
               /\ ~repeat_contributed(beam[w][i], refined_log_probs[t + 1], top_idx'[w]))
              => beam'[w][j].segs = beam[w][i].segs]_vars

\* the frame list is a range of consecutive frame indices
contiguous(frames) == \A i \in 1..(Len(frames) - 1) : frames[i + 1] = frames[i] + 1

\* C11: in every beam entry after any number of frames each segment's frame
\* list is a contiguous range of frame indices.
C11_FramesContiguous ==
    pc \in {"decode", "extract", "done"} =>
        \A w \in BeamWidths : \A i \in 1..Len(beam[w]) :
            \A n \in 1..Len(beam[w][i].segs) : contiguous(beam[w][i].segs[n].frames)

\* CTC collapse of a labeling: runs of one symbol become one symbol, then the
\* blanks are dropped
RECURSIVE collapse(_, _)
collapse(labeling, n) ==
    IF n = 0 THEN <<>>
    ELSE IF \/ labeling[n] = blank_id
            \/ (n > 1 /\ labeling[n] = labeling[n - 1])
         THEN collapse(labeling, n - 1)
         ELSE Append(collapse(labeling, n - 1), labeling[n])

\* product of the refined probabilities along a labeling of the first n frames
RECURSIVE labeling_mass(_, _, _)
labeling_mass(rows, labeling, n) ==
    IF n = 0 THEN 1 ELSE rows[n][labeling[n] + 1] * labeling_mass(rows, labeling, n - 1)

\* the labeling of no frame counts as ending in blank
ends_in_blank(labeling) == labeling = <<>> \/ labeling[Len(labeling)] = blank_id

\* sum of the masses of the labelings of the first n frames that start with
\* labeling, collapse to prefix and end in blank (or not), token ids from id on
RECURSIVE labelings_mass(_, _, _, _, _, _)
labelings_mass(rows, n, labeling, id, prefix, blank_end) ==
    IF Len(labeling) = n
    THEN IF collapse(labeling, n) = prefix /\ ends_in_blank(labeling) = blank_end
         THEN labeling_mass(rows, labeling, n) ELSE 0
    ELSE IF id >= vocab_size THEN 0
    ELSE labelings_mass(rows, n, Append(labeling, id), 0, prefix, blank_end)
         + labelings_mass(rows, n, labeling, id + 1, prefix, blank_end)

\* the prefixes that have mass after the first n frames
live_prefixes(rows, n) ==
    {collapse(labeling, n) : labeling \in
        {l \in [1..n -> TokenIds] : labeling_mass(rows, l, n) > 0}}

\* nothing that has mass is discarded in the first n frames with beam_width:
\* the tokens that have mass fit in the top-K cut of each frame and the
\* prefixes that have mass fit in the beam after each frame
nothing_discarded(rows, n, beam_width) ==
    \A s \in 1..n :
        /\ Cardinality({id \in TokenIds : rows[s][id + 1] > 0}) <= top_size(beam_width)
        /\ Cardinality(live_prefixes(rows, s)) <= beam_width

\* C12: when no candidate is discarded, after the frames decoded so far b of
\* each beam prefix is the sum of the masses of the labelings that collapse
\* to it and end in blank, and nb the sum over those that end in a symbol; a
\* prefix that appears by repeating the last symbol of a beam prefix gets its
\* mass from the blank mass of that prefix only.
C12_ExactPrefixMasses ==
    /\ [](pc \in {"decode", "extract", "done"} =>
            \A w \in BeamWidths :
                nothing_discarded(refined_log_probs, t, w) =>
                    \A i \in 1..Len(beam[w]) :
                        /\ beam[w][i].b = labelings_mass(refined_log_probs, t, <<>>, 0,
                                                         beam[w][i].prefix, TRUE)
                        /\ beam[w][i].nb = labelings_mass(refined_log_probs, t, <<>>, 0,
                                                          beam[w][i].prefix, FALSE))
    /\ [][pc = "decode" =>
            \A w \in BeamWidths : \A i \in 1..Len(beam[w]) : \A j \in 1..Len(beam'[w]) :
                LET state == beam[w][i]
                    repeated == Append(state.prefix, state.prefix[Len(state.prefix)])
                IN (/\ state.prefix # <<>>
                    /\ beam'[w][j].prefix = repeated
                    /\ IndexOf(beam[w], repeated) = 0)
                   => /\ beam'[w][j].b = 0
                      /\ beam'[w][j].nb =
                            state.b * refined_log_probs[t + 1][repeated[Len(repeated)] + 1]]_vars

\* two frames have been decoded without a discard and a prefix holds mass of
\* both kinds, part of it from the repeat extension
C12_Witness ==
    /\ pc = "decode"
    /\ t = 2
    /\ nothing_discarded(refined_log_probs, t, WideWidth)
    /\ \E i \in 1..Len(beam[WideWidth]) :
          /\ beam[WideWidth][i].prefix # <<>>
          /\ beam[WideWidth][i].b > 0
          /\ beam[WideWidth][i].nb >
                refined_log_probs[1][blank_id + 1]
                * refined_log_probs[2][beam[WideWidth][i].prefix[1] + 1]

\* candidate k comes before candidate c in the order of the prune: a higher
\* total, or the same total and an earlier first appearance in the frame
before(candidates, k, c) ==
    \/ Total(candidates[k]) > Total(candidates[c])
    \/ (Total(candidates[k]) = Total(candidates[c]) /\ k < c)

\* kept holds the beam_width best of the candidates, in their order
keeps_best(kept, candidates, beam_width) ==
    /\ Len(kept) = Min2(beam_width, Len(candidates))
    /\ \A i \in 1..Len(kept) :
          \E k \in 1..Len(candidates) :
              /\ kept[i] = candidates[k]
              /\ Cardinality({c \in 1..Len(candidates) : before(candidates, c, k)}) = i - 1

\* C13: after every frame the beam holds at most beam_width entries, the
\* candidates of the frame with the highest totals, an equal total going to
\* the prefix that appeared first during the frame; the winning path after
\* the last frame is the entry with the highest total.
C13_BeamKeepsBest ==
    [][pc = "decode" =>
          \A w \in BeamWidths :
              \A candidates \in {update_states(<<>>, beam[w], refined_log_probs[t + 1],
                                                top_idx'[w], t, 1)} :
                  /\ Len(beam'[w]) <= w
                  /\ keeps_best(beam'[w], candidates, w)
                  /\ pc' = "extract" =>
                        \A c \in 1..Len(candidates) :
                            Total(beam'[w][1]) >= Total(candidates[c])]_vars

\* the last frame is decoded, the wide beam is full and its first entry has
\* a higher total than its second
C13_Witness ==
    /\ pc = "extract"
    /\ Len(beam[WideWidth]) = WideWidth
    /\ Total(beam[WideWidth][1]) > Total(beam[WideWidth][2])
    /\ Total(beam[WideWidth][2]) > 0

\* the transitions of the frame that land on prefix from the items of
\* old_beam, each with the mass it contributes and the trace it carries
transitions_into(old_beam, frame_lp, top, frame, prefix) ==
    LET last == prefix[Len(prefix)]
        emitted == prefix # <<>> /\ \E i \in 1..Len(top) : top[i] = last
        carried(state) ==
            {[kind |-> "blank", mass |-> Total(state) * frame_lp[blank_id + 1],
              segs |-> state.segs]}
            \cup (IF emitted
                  THEN {[kind |-> "repeat-extension", mass |-> state.nb * frame_lp[last + 1],
                         segs |-> extend_last(state.segs, frame)]}
                  ELSE {})
        started(state) ==
            IF emitted /\ Append(state.prefix, last) = prefix
            THEN {[kind |-> "new-instance",
                   mass |-> (IF state.prefix # <<>> /\ state.prefix[Len(state.prefix)] = last
                             THEN state.b ELSE Total(state)) * frame_lp[last + 1],
                   segs |-> Append(state.segs, [p_id |-> last, frames |-> <<frame>>])]}
            ELSE {}
    IN UNION {IF old_beam[i].prefix = prefix THEN carried(old_beam[i])
              ELSE started(old_beam[i]) : i \in 1..Len(old_beam)}

\* C14: when several transitions of a frame land on one prefix, the trace
\* stored for it is the trace of the transition that contributed the largest
\* mass.
C14_DominantTrace ==
    [][pc = "decode" =>
          \A w \in BeamWidths : \A j \in 1..Len(beam'[w]) :
              LET landing == transitions_into(beam[w], refined_log_probs[t + 1],
                                              top_idx'[w], t, beam'[w][j].prefix)
              IN \A dominant \in landing :
                     (/\ Cardinality(landing) > 1
                      /\ \A other \in landing \ {dominant} : dominant.mass > other.mass)
                     => beam'[w][j].segs = dominant.segs]_vars

\* the frames the refiner has gone through
refined_frames ==
    IF pc = "refine" THEN t
    ELSE IF pc \in {"decode", "extract", "done"} THEN num_frames ELSE 0

\* ids a and b are the two most likely tokens of the row
two_highest(row, a, b) ==
    /\ a # b
    /\ row[a + 1] >= row[b + 1]
    /\ \A id \in TokenIds \ {a, b} : row[b + 1] >= row[id + 1]

\* the highest probability of the row is below the threshold (in tenths)
below_threshold(row, threshold) ==
    \A id \in TokenIds : 10 * row[id + 1] < threshold * RowSum(row, vocab_size)

\* C15: a frame whose highest probability is below confidence_threshold has,
\* once refined, a finite log-probability only on its two most likely symbols
\* and on the blank, the blank staying finite if it was, also after the boost
\* of the expected phonemes; a frame whose highest probability reaches the
\* threshold has no entry set to -inf.
C15_SuppressionKeepsTopTwoAndBlank ==
    \A s \in 1..refined_frames :
        IF below_threshold(log_probs[s], confidence_threshold)
        THEN /\ \E a, b \in TokenIds :
                   /\ two_highest(log_probs[s], a, b)
                   /\ \A id \in TokenIds :
                          refined_log_probs[s][id + 1] > 0 => id \in {a, b, blank_id}
             /\ log_probs[s][blank_id + 1] > 0 => refined_log_probs[s][blank_id + 1] > 0
        ELSE \A id \in TokenIds :
                 log_probs[s][id + 1] > 0 => refined_log_probs[s][id + 1] > 0

\* an uncertain frame whose two most likely symbols do not include the blank
\* has been suppressed and one of its symbols boosted; a confident frame has
\* been refined too
C15_Witness ==
    /\ pc = "decode"
    /\ \E s \in 1..num_frames :
          /\ below_threshold(log_probs[s], confidence_threshold)
          /\ \E id \in TokenIds : refined_log_probs[s][id + 1] = 0
          /\ \E a, b \in TokenIds \ {blank_id} : two_highest(log_probs[s], a, b)
          /\ \E id \in TokenIds : refined_log_probs[s][id + 1] > log_probs[s][id + 1]
    /\ \E s \in 1..num_frames :
          /\ confidence_threshold > 0
          /\ ~below_threshold(log_probs[s], confidence_threshold)

\* the detail entries one opcode stands for
ops_of(op) ==
    IF op[1] = "replace" THEN Max2(op[3] - op[2], op[5] - op[4])
    ELSE IF op[1] = "insert" THEN op[5] - op[4]
    ELSE op[3] - op[2]

RECURSIVE ops_before(_, _)
ops_before(opcodes, n) ==
    IF n <= 1 THEN 0 ELSE ops_of(opcodes[n - 1]) + ops_before(opcodes, n - 1)

\* the entries of details that satisfy Has, read in order, carry exactly the
\* symbols of expected under Field
reads_as(details, Has(_), Field(_), expected) ==
    LET kept == {k \in 1..Len(details) : Has(details[k])}
    IN /\ Cardinality(kept) = Len(expected)
       /\ \A k \in kept :
              Field(details[k]) = expected[Cardinality({j \in kept : j <= k})]

\* C16: the phoneme fields of the ops that have one, read in order, are ref
\* and the user fields of the ops that have one, read in order, are hyp; a
\* replace run of lengths (a, b) yields max(a, b) substitution ops paired
\* index-wise, with an empty symbol on the side that has run out.
C16_DetailsCoverBothInOrder ==
    pc = "returned" =>
        LET details == score_result.details
            opcodes == get_opcodes(ref_phonemes, user_phonemes)
        IN /\ reads_as(details, LAMBDA op : op.phoneme # "", LAMBDA op : op.phoneme,
                       ref_phonemes)
           /\ reads_as(details, LAMBDA op : op.user # "", LAMBDA op : op.user,
                       user_phonemes)
           /\ \A n \in 1..Len(opcodes) :
                  opcodes[n][1] = "replace" =>
                      LET a == opcodes[n][3] - opcodes[n][2]
                          b == opcodes[n][5] - opcodes[n][4]
                      IN \A m \in 1..Max2(a, b) :
                             details[ops_before(opcodes, n) + m] =
                                 [phoneme |-> IF m <= a THEN ref_phonemes[opcodes[n][2] + m]
                                              ELSE "",
                                  status |-> "substitution",
                                  user |-> IF m <= b THEN user_phonemes[opcodes[n][4] + m]
                                           ELSE ""]
           /\ CountOps(details, LAMBDA op : op.status = "substitution")
                 = Cardinality({k \in 1..Len(details) :
                       \E n \in 1..Len(opcodes) :
                           /\ opcodes[n][1] = "replace"
                           /\ k > ops_before(opcodes, n)
                           /\ k <= ops_before(opcodes, n) + ops_of(opcodes[n])})

\* a replace run whose reference side ran out first has been scored next to
\* a match
C16_Witness ==
    /\ pc = "returned"
    /\ \E k \in 1..Len(score_result.details) :
          /\ score_result.details[k].status = "substitution"
          /\ score_result.details[k].phoneme = ""
    /\ \E k \in 1..Len(score_result.details) : score_result.details[k].status = "match"

\* the decoded tokens of the segments of the trace, from the n-th on, that
\* pass the duration filter
RECURSIVE tokens_kept(_, _, _, _)
tokens_kept(segs, n, mpf, min_duration) ==
    IF n > Len(segs) THEN <<>>
    ELSE (IF fless(fmulint(mpf, Len(segs[n].frames)), ffromint(min_duration))
          THEN <<>> ELSE <<decode(segs[n].p_id)>>)
         \o tokens_kept(segs, n + 1, mpf, min_duration)

\* C17: the phoneme fields transcribe returns are normalize_ipa_sequence of
\* the decoded tokens of the segments that pass the duration filter: a token
\* that normalizes to several symbols contributes all of them.
C17_NoSymbolLost ==
    pc = "done" =>
        \A w \in BeamWidths :
            [i \in 1..Len(final_segments[w]) |-> final_segments[w][i].phoneme]
                = normalize_ipa_sequence(tokens_kept(beam[w][1].segs, 1, ms_per_frame,
                                                     min_duration_ms))

----------------------------------------------------------------------------
(* Properties of score_practice (SpecRoute) *)

\* C18: when score_practice has finished, with a score or with HTTP 500, the
\* user audio it saved under INPUT_DIR no longer exists.
C18_UploadRemoved ==
    pc = "responded" => user_audio # "saved"

====
